---------------------------- MODULE Spec2Model ----------------------------
(***************************************************************************)
(* A model of query.Decode (src/query/decode.go): the decoding of a        *)
(* url.Values mapping into the fields of a tagged struct.                  *)
(*                                                                         *)
(* Strings are sequences of one-character strings, so that parsing is      *)
(* computed character by character.  Integers are kept as a sign and a     *)
(* sequence of decimal digits without leading zeros, so that the 64-bit    *)
(* intermediate precision of strconv and the declared width of a field are *)
(* compared exactly.  A float is kept as the decimal it was parsed from,   *)
(* normalised to 0.d1d2...dn * 10^exp with d1 # 0 and dn # 0; this stands  *)
(* for the nearest float of the field's precision.  It is faithful for the *)
(* decimal grammar with mantissas of at most 17 significant digits and     *)
(* exponents above the subnormal range; hexadecimal floats and underscores *)
(* are outside the strings considered.                                     *)
(***************************************************************************)
EXTENDS Integers, Sequences, FiniteSets, TLC

(***************************************************************************)
(* Characters and strings                                                  *)
(***************************************************************************)
\* The element of a singleton.  Written The({F(x) : x \in {e}}), it has TLC
\* work e out once, however often F uses x.
The(S) == CHOOSE x \in S : TRUE

Digits == <<"0", "1", "2", "3", "4", "5", "6", "7", "8", "9">>

IsDigit(c) == \E i \in DOMAIN Digits : Digits[i] = c

DigitVal(c) == (CHOOSE i \in DOMAIN Digits : Digits[i] = c) - 1

AllDigits(s) == \A i \in DOMAIN s : IsDigit(s[i])

DigitVals(s) == [i \in DOMAIN s |-> DigitVal(s[i])]

RECURSIVE StripLeadingZeros(_)
StripLeadingZeros(m) ==
    IF m # <<>> /\ Head(m) = 0 THEN StripLeadingZeros(Tail(m)) ELSE m

RECURSIVE StripTrailingZeros(_)
StripTrailingZeros(m) ==
    IF m # <<>> /\ m[Len(m)] = 0
    THEN StripTrailingZeros(SubSeq(m, 1, Len(m) - 1))
    ELSE m

LeadingZeros(m) == Len(m) - Len(StripLeadingZeros(m))

(***************************************************************************)
(* Magnitudes: digit sequences without leading zeros, <<>> being zero.     *)
(***************************************************************************)
MagLess(a, b) ==
    \/ Len(a) < Len(b)
    \/ /\ Len(a) = Len(b)
       /\ \E i \in DOMAIN a :
            /\ a[i] < b[i]
            /\ \A j \in 1..(i - 1) : a[j] = b[j]

MagLeq(a, b) == a = b \/ MagLess(a, b)

\* 2^w as a magnitude, for the widths of Go's integer kinds and their sign bit.
Pow2(w) ==
    CASE w = 7 -> <<1, 2, 8>>
      [] w = 8 -> <<2, 5, 6>>
      [] w = 15 -> <<3, 2, 7, 6, 8>>
      [] w = 16 -> <<6, 5, 5, 3, 6>>
      [] w = 31 -> <<2, 1, 4, 7, 4, 8, 3, 6, 4, 8>>
      [] w = 32 -> <<4, 2, 9, 4, 9, 6, 7, 2, 9, 6>>
      [] w = 63 -> <<9, 2, 2, 3, 3, 7, 2, 0, 3, 6, 8, 5, 4, 7, 7, 5, 8, 0, 8>>
      [] w = 64 -> <<1, 8, 4, 4, 6, 7, 4, 4, 0, 7, 3, 7, 0, 9, 5, 5, 1, 6, 1, 6>>

\* Fractions 0.a and 0.b compared digit by digit (no trailing zeros).
FracLess(a, b) ==
    \E i \in DOMAIN b :
        /\ \A j \in 1..(i - 1) : j \in DOMAIN a /\ a[j] = b[j]
        /\ (i \notin DOMAIN a \/ a[i] < b[i])

(***************************************************************************)
(* strconv: the parsers convertString calls.  Each returns a record whose  *)
(* err is "nil", "syntax" (strconv.ErrSyntax) or "range" (ErrRange).       *)
(***************************************************************************)
\* strconv.ParseUint(s, 10, 64)
ParseUint(s) ==
    IF s = <<>> \/ ~AllDigits(s)
    THEN [err |-> "syntax", mag |-> <<>>]
    ELSE LET m == StripLeadingZeros(DigitVals(s))
         IN  IF MagLeq(Pow2(64), m)
             THEN [err |-> "range", mag |-> <<>>]
             ELSE [err |-> "nil", mag |-> m]

\* strconv.ParseInt(s, 10, 64), once the sign is read: un is ParseUint of
\* the rest, and the cutoff is 2^63.
ParseIntSigned(neg, un) ==
    IF un.err # "nil"
    THEN [err |-> un.err, neg |-> FALSE, mag |-> <<>>]
    ELSE IF ~neg /\ MagLeq(Pow2(63), un.mag)
    THEN [err |-> "range", neg |-> FALSE, mag |-> <<>>]
    ELSE IF neg /\ MagLess(Pow2(63), un.mag)
    THEN [err |-> "range", neg |-> FALSE, mag |-> <<>>]
    ELSE [err |-> "nil", neg |-> neg /\ un.mag # <<>>, mag |-> un.mag]

\* strconv.ParseInt(s, 10, 64)
ParseInt(s) ==
    IF s = <<>>
    THEN [err |-> "syntax", neg |-> FALSE, mag |-> <<>>]
    ELSE The({ParseIntSigned(Head(s) = "-", un) :
                un \in {ParseUint(IF Head(s) \in {"+", "-"} THEN Tail(s) ELSE s)}})

\* strconv.ParseBool(s)
ParseBool(s) ==
    IF s \in {<<"1">>, <<"t">>, <<"T">>, <<"T", "R", "U", "E">>,
              <<"t", "r", "u", "e">>, <<"T", "r", "u", "e">>}
    THEN [err |-> "nil", val |-> TRUE]
    ELSE IF s \in {<<"0">>, <<"f">>, <<"F">>, <<"F", "A", "L", "S", "E">>,
                   <<"f", "a", "l", "s", "e">>, <<"F", "a", "l", "s", "e">>}
    THEN [err |-> "nil", val |-> FALSE]
    ELSE [err |-> "syntax", val |-> FALSE]

\* The length of the longest prefix of s made of digits.
RECURSIVE DigitPrefixLen(_)
DigitPrefixLen(s) ==
    IF s # <<>> /\ IsDigit(Head(s)) THEN 1 + DigitPrefixLen(Tail(s)) ELSE 0

\* The decimal exponent, saturating as strconv's readFloat does.
RECURSIVE ExpValue(_, _)
ExpValue(ds, acc) ==
    IF ds = <<>> THEN acc
    ELSE ExpValue(Tail(ds), IF acc < 10000 THEN acc * 10 + Head(ds) ELSE acc)

ToLower(c) ==
    CASE c = "I" -> "i" [] c = "N" -> "n" [] c = "F" -> "f" [] c = "T" -> "t"
      [] c = "Y" -> "y" [] c = "A" -> "a" [] OTHER -> c

Lower(s) == [i \in DOMAIN s |-> ToLower(s[i])]

FloatZero == [cls |-> "fin", neg |-> FALSE, digs |-> <<>>, exp |-> 0]

\* The least decimal that rounds beyond the largest float64 (2^1024 - 2^970)
\* and the largest float32, both as 0.d1d2... * 10^exp; and the exponent at
\* and below which a decimal rounds to the float64 zero.
Float64Limit ==
    [digs |-> <<1, 7, 9, 7, 6, 9, 3, 1, 3, 4, 8, 6, 2, 3, 1, 5, 8>>, exp |-> 309]
Float32Max ==
    [digs |-> <<3, 4, 0, 2, 8, 2, 3, 4, 6, 6, 3, 8, 5, 2, 8, 8, 6>>, exp |-> 39]
Float64Tiny == [digs |-> <<1>>, exp |-> -323]

\* 0.a.digs * 10^a.exp < 0.b.digs * 10^b.exp, for non-zero decimals
DecimalLess(a, b) ==
    \/ a.exp < b.exp
    \/ a.exp = b.exp /\ FracLess(a.digs, b.digs)

\* The float64 nearest to (-1)^neg * 0.digs * 10^exp: zero when it is too
\* small, a range error when it is too large.
RoundFloat64(neg, digs, exp) ==
    IF digs = <<>> \/ DecimalLess([digs |-> digs, exp |-> exp], Float64Tiny)
    THEN [err |-> "nil", val |-> FloatZero]
    ELSE IF ~DecimalLess([digs |-> digs, exp |-> exp], Float64Limit)
    THEN [err |-> "range", val |-> FloatZero]
    ELSE [err |-> "nil",
          val |-> [cls |-> "fin", neg |-> neg, digs |-> digs, exp |-> exp]]

\* The decimal with the mantissa digits all, the point after the first
\* point of them, and the exponent e.
Decimal(neg, all, point, e) ==
    The({RoundFloat64(neg, digs, exp) :
           digs \in {StripTrailingZeros(StripLeadingZeros(all))},
           exp \in {point - LeadingZeros(all) + e}})

\* The exponent part of a float: empty, or e or E, a sign and digits.
ParseExponent(src) ==
    IF src = <<>>
    THEN [ok |-> TRUE, e |-> 0]
    ELSE IF Head(src) \notin {"e", "E"} \/ Len(src) = 1
    THEN [ok |-> FALSE, e |-> 0]
    ELSE IF src[2] \in {"+", "-"}
    THEN [ok |-> Len(src) > 2 /\ AllDigits(SubSeq(src, 3, Len(src))),
          e  |-> (IF src[2] = "-" THEN -1 ELSE 1)
                   * ExpValue(DigitVals(SubSeq(src, 3, Len(src))), 0)]
    ELSE [ok |-> AllDigits(Tail(src)), e |-> ExpValue(DigitVals(Tail(src)), 0)]

\* readFloat, after the sign and the nInt digits before the point: nFrac
\* digits follow the point, if there is one.
ParseFraction(neg, body, nInt, hasDot, nFrac, exponent) ==
    IF nInt + nFrac = 0 \/ ~exponent.ok
    THEN [err |-> "syntax", val |-> FloatZero]
    ELSE The({Decimal(neg, all, nInt, exponent.e) :
                all \in {DigitVals(SubSeq(body, 1, nInt))
                           \o DigitVals(SubSeq(body, nInt + 2, nInt + 1 + nFrac))}})

ParseMantissa(neg, body, nInt) ==
    IF nInt < Len(body) /\ body[nInt + 1] = "."
    THEN The({The({ParseFraction(neg, body, nInt, TRUE, nFrac, exponent) :
                     exponent \in {ParseExponent(SubSeq(body, nInt + 2 + nFrac,
                                                        Len(body)))}}) :
                nFrac \in {DigitPrefixLen(SubSeq(body, nInt + 2, Len(body)))}})
    ELSE The({ParseFraction(neg, body, nInt, FALSE, 0, exponent) :
                exponent \in {ParseExponent(SubSeq(body, nInt + 1, Len(body)))}})

\* special and readFloat, after the sign: body is the rest, low is body in
\* lower case.
ParseUnsigned(signed, neg, body, low) ==
    IF low \in {<<"i", "n", "f">>, <<"i", "n", "f", "i", "n", "i", "t", "y">>}
    THEN [err |-> "nil",
          val |-> [cls |-> "inf", neg |-> neg, digs |-> <<>>, exp |-> 0]]
    ELSE IF ~signed /\ low = <<"n", "a", "n">>
    THEN [err |-> "nil",
          val |-> [cls |-> "nan", neg |-> FALSE, digs |-> <<>>, exp |-> 0]]
    ELSE The({ParseMantissa(neg, body, nInt) : nInt \in {DigitPrefixLen(body)}})

\* strconv.ParseFloat(s, 64)
ParseFloat(s) ==
    IF s # <<>> /\ Head(s) \in {"+", "-"}
    THEN The({ParseUnsigned(TRUE, Head(s) = "-", body, Lower(body)) :
                body \in {Tail(s)}})
    ELSE ParseUnsigned(FALSE, FALSE, s, Lower(s))

(***************************************************************************)
(* Names, tags and kinds                                                   *)
(***************************************************************************)
PtrKind == "Ptr"
IntKinds == {"Int", "Int8", "Int16", "Int32", "Int64"}
UintKinds == {"Uint", "Uint8", "Uint16", "Uint32", "Uint64"}
FloatKinds == {"Float32", "Float64"}
PrimitiveKinds == IntKinds \cup UintKinds \cup FloatKinds \cup {"Bool", "String"}

SkipTag == <<"-">>
SeenOption == <<"s", "e", "e", "n">>
ScaleName == <<"s", "c", "a", "l", "e">>
NoTag == <<>>
ScaleTag == ScaleName
ScaleSeenTag == ScaleName \o <<",">> \o SeenOption
DefaultSeenTag == <<",">> \o SeenOption
ScaleOmitTag == ScaleName \o <<",">> \o <<"o", "m", "i", "t", "e", "m", "p", "t", "y">>
DashOmitTag == SkipTag \o <<",">> \o <<"o", "m", "i", "t", "e", "m", "p", "t", "y">>

\* The declared names of a struct's fields, by position: exported ones are
\* upper case, unexported ones lower case.
ExportedNames == <<"A", "B", "C", "D">>
UnexportedNames == <<"a", "b", "c", "d">>

(***************************************************************************)
(* parseTag and tagOptions.Contains (encode.go, not among the sources):    *)
(* the tag is split at its commas; the first segment is the name, the      *)
(* others are the options.                                                 *)
(***************************************************************************)
RECURSIVE Split(_, _)
Split(s, sep) ==
    IF \A i \in DOMAIN s : s[i] # sep
    THEN <<s>>
    ELSE LET k == CHOOSE i \in DOMAIN s :
                    s[i] = sep /\ \A j \in 1..(i - 1) : s[j] # sep
         IN  <<SubSeq(s, 1, k - 1)>> \o Split(SubSeq(s, k + 1, Len(s)), sep)

TagOf(parts) == [name |-> Head(parts), opts |-> Tail(parts)]

parseTag(tag) == TagOf(Split(tag, ","))

Contains(opts, option) == \E i \in DOMAIN opts : opts[i] = option

(***************************************************************************)
(* Errors are their texts; nil is the empty text.                          *)
(***************************************************************************)
NilError == <<>>

\* reflect.Kind.String()
KindName(kind) ==
    CASE kind = "Int" -> <<"i", "n", "t">>
      [] kind = "Int8" -> <<"i", "n", "t", "8">>
      [] kind = "Int16" -> <<"i", "n", "t", "1", "6">>
      [] kind = "Int32" -> <<"i", "n", "t", "3", "2">>
      [] kind = "Int64" -> <<"i", "n", "t", "6", "4">>
      [] kind = "Uint" -> <<"u", "i", "n", "t">>
      [] kind = "Uint8" -> <<"u", "i", "n", "t", "8">>
      [] kind = "Uint16" -> <<"u", "i", "n", "t", "1", "6">>
      [] kind = "Uint32" -> <<"u", "i", "n", "t", "3", "2">>
      [] kind = "Uint64" -> <<"u", "i", "n", "t", "6", "4">>
      [] kind = "Float32" -> <<"f", "l", "o", "a", "t", "3", "2">>
      [] kind = "Float64" -> <<"f", "l", "o", "a", "t", "6", "4">>
      [] kind = "Bool" -> <<"b", "o", "o", "l">>
      [] kind = "String" -> <<"s", "t", "r", "i", "n", "g">>
      [] kind = "Complex128" -> <<"c", "o", "m", "p", "l", "e", "x", "1", "2", "8">>
      [] kind = "Struct" -> <<"s", "t", "r", "u", "c", "t">>
      [] kind = "Slice" -> <<"s", "l", "i", "c", "e">>
      [] kind = "Array" -> <<"a", "r", "r", "a", "y">>
      [] kind = "Ptr" -> <<"p", "t", "r">>

Quote(s) == <<"\"">> \o s \o <<"\"">>

\* strconv.NumError.Error(): the error of a failed ParseInt, ParseUint,
\* ParseFloat or ParseBool.
NumError(func, s, err) ==
    <<"s", "t", "r", "c", "o", "n", "v", ".">> \o func \o <<":", " ", "p", "a", "r", "s", "i", "n", "g", " ">> \o Quote(s) \o <<":", " ">>
      \o (IF err = "syntax"
          THEN <<"i", "n", "v", "a", "l", "i", "d", " ", "s", "y", "n", "t", "a", "x">>
          ELSE <<"v", "a", "l", "u", "e", " ", "o", "u", "t", " ", "o", "f", " ", "r",
                  "a", "n", "g", "e">>)

\* decode.go:68
ExpectsStructError(kind) ==
    <<"q", "u", "e", "r", "y", ":", " ", " ", "D", "e", "c", "o", "d", "e",
      "(", ")", " ", "e", "x", "p", "e", "c", "t", "s", " ", "s", "t", "r",
      "u", "c", "t", " ", "i", "n", "p", "u", "t", ".", " ", " ", "G", "o",
      "t", " ">>
      \o KindName(kind)

\* decode.go:210
NilPointerError ==
    <<"q", "u", "e", "r", "y", ":", " ", " ", "A", "t", "t", "e", "m", "p",
      "t", " ", "t", "o", " ", "D", "e", "c", "o", "d", "e", "(", ")", " ",
      "i", "n", "t", "o", " ", "n", "i", "l", " ", "p", "o", "i", "n", "t",
      "e", "r">>

\* decode.go:242, 251, 260
IncompatibleError(toxicStr, kind) ==
    <<"q", "u", "e", "r", "y", ":", " ", " ", "Q", "u", "e", "r", "y", " ",
      "a", "r", "g", " ", "v", "a", "l", "u", "e", " ">>
      \o Quote(toxicStr)
      \o <<" ", "i", "n", "c", "o", "m", "p", "a", "t", "i", "b", "l", "e", " ",
        "w", "i", "t", "h", " ", "f", "i", "e", "l", "d", " ", "v", "a", "l",
        "u", "e", " ", "t", "y", "p", "e", " ">>
      \o KindName(kind)

\* A variant of UnsupportedError with another text.
UnknownKindError(kind) ==
    <<"q", "u", "e", "r", "y", ":", " ", " ", "u", "n", "k", "n", "o", "w",
      "n", " ", "k", "i", "n", "d", " ">>
      \o KindName(kind)

\* decode.go:275
UnsupportedError(kind) ==
    <<"q", "u", "e", "r", "y", ":", " ", " ", "U", "n", "s", "u", "p", "p",
      "o", "r", "t", "e", "d", " ", "f", "i", "e", "l", "d", " ", "v", "a",
      "l", "u", "e", " ", "t", "y", "p", "e", " ">>
      \o KindName(kind)

\* The error a Decoder's DecodeValues returns, when it returns one.
DecodeValuesError == <<"D", "e", "c", "o", "d", "e", "V", "a", "l", "u", "e", "s", " ", "f",
      "a", "i", "l", "e", "d">>

\* strings.Index(text, word) >= 0
HasSubstring(text, word) ==
    \E k \in 0..(Len(text) - Len(word)) :
        \A j \in DOMAIN word : text[k + j] = word[j]

Incompatible == <<"i", "n", "c", "o", "m", "p", "a", "t", "i", "b", "l", "e">>
Unsupported == <<"U", "n", "s", "u", "p", "p", "o", "r", "t", "e", "d">>

(***************************************************************************)
(* reflect: the values of fields.  An integer is [neg, mag]; a float is    *)
(* the decimal it rounds; a pointer is "nil" or "ptr" (it points to        *)
(* something); a value of another kind is "zero" or "preset".              *)
(***************************************************************************)
IntZero == [neg |-> FALSE, mag |-> <<>>]

ZeroValue(kind) ==
    CASE kind \in IntKinds \cup UintKinds -> IntZero
      [] kind \in FloatKinds -> FloatZero
      [] kind = "Bool" -> FALSE
      [] kind = "String" -> <<>>
      [] kind = PtrKind -> "nil"
      [] OTHER -> "zero"

\* A value other than the zero value, for a target that is not fresh.
PresetValue(kind) ==
    CASE kind \in IntKinds \cup UintKinds -> [neg |-> FALSE, mag |-> <<4, 2>>]
      [] kind \in FloatKinds ->
            [cls |-> "fin", neg |-> FALSE, digs |-> <<1, 5>>, exp |-> 1]
      [] kind = "Bool" -> TRUE
      [] kind = "String" -> <<"o", "l", "d">>
      [] kind = PtrKind -> "ptr"
      [] OTHER -> "preset"

\* The size in bits of a kind; int and uint have the word size of the build.
BitSize(kind, wordBits) ==
    CASE kind \in {"Int8", "Uint8"} -> 8
      [] kind \in {"Int16", "Uint16"} -> 16
      [] kind \in {"Int32", "Uint32"} -> 32
      [] kind \in {"Int64", "Uint64"} -> 64
      [] kind \in {"Int", "Uint"} -> wordBits

\* A variant of OverflowInt that lets 2^(bits-1) through.
OverflowIntLax(n, bits) == MagLess(Pow2(bits - 1), n.mag)

\* reflect.Value.OverflowInt: n is outside -2^(bits-1) .. 2^(bits-1) - 1
OverflowInt(n, bits) ==
    IF n.neg THEN MagLess(Pow2(bits - 1), n.mag) ELSE MagLeq(Pow2(bits - 1), n.mag)

\* reflect.Value.OverflowUint: n is outside 0 .. 2^bits - 1
OverflowUint(n, bits) == MagLeq(Pow2(bits), n.mag)

\* reflect.Value.OverflowFloat: a finite float64 beyond the largest float32
OverflowFloat(x, kind) ==
    kind = "Float32" /\ x.cls = "fin" /\ x.digs # <<>>
        /\ DecimalLess(Float32Max, [digs |-> x.digs, exp |-> x.exp])

\* Half the least positive float32: anything below it is stored as zero.
Float32Tiny == [digs |-> <<7>>, exp |-> -45]

\* reflect.Value.SetFloat: the value the field holds after the assignment.
StoredFloat(x, kind) ==
    IF kind = "Float32" /\ x.cls = "fin" /\ x.digs # <<>>
          /\ DecimalLess([digs |-> x.digs, exp |-> x.exp], Float32Tiny)
    THEN FloatZero
    ELSE x

(***************************************************************************)
(* convertString(toxicStr, v, opts): v is [kind, canSet, val]; the result  *)
(* is the error returned and the value v holds afterwards, or loops when   *)
(* the call does not return.                                               *)
(***************************************************************************)
Returned(err, val) == [loops |-> FALSE, err |-> err, val |-> val]

\* decode.go:237-244: n is strconv.ParseInt(toxicStr, 10, 64)
convertInt(toxicStr, v, n, bits) ==
    IF n.err # "nil"
    THEN Returned(NumError(<<"P", "a", "r", "s", "e", "I", "n", "t">>,
                           toxicStr, n.err), v.val)
    ELSE IF OverflowInt(n, bits)
    THEN Returned(IncompatibleError(toxicStr, v.kind), v.val)
    ELSE Returned(NilError, [neg |-> n.neg, mag |-> n.mag])

\* decode.go:246-253: n is strconv.ParseUint(toxicStr, 10, 64)
convertUint(toxicStr, v, n, bits) ==
    IF n.err # "nil"
    THEN Returned(NumError(<<"P", "a", "r", "s", "e", "U", "i", "n", "t">>,
                           toxicStr, n.err), v.val)
    ELSE IF OverflowUint(n, bits)
    THEN Returned(IncompatibleError(toxicStr, v.kind), v.val)
    ELSE Returned(NilError, [neg |-> FALSE, mag |-> n.mag])

\* decode.go:255-262: n is strconv.ParseFloat(toxicStr, 64)
convertFloat(toxicStr, v, n) ==
    IF n.err # "nil"
    THEN Returned(NumError(<<"P", "a", "r", "s", "e", "F", "l", "o", "a", "t">>,
                           toxicStr, n.err), v.val)
    ELSE IF OverflowFloat(n.val, v.kind)
    THEN Returned(IncompatibleError(toxicStr, v.kind), v.val)
    ELSE Returned(NilError, StoredFloat(n.val, v.kind))

\* decode.go:264-269: n is strconv.ParseBool(toxicStr)
convertBool(toxicStr, v, n) ==
    IF n.err # "nil"
    THEN Returned(NumError(<<"P", "a", "r", "s", "e", "B", "o", "o", "l">>,
                           toxicStr, n.err), v.val)
    ELSE Returned(NilError, n.val)

convertString(toxicStr, v, wordBits) ==
    IF v.kind = PtrKind
    THEN IF v.val = "nil"
         THEN Returned(NilPointerError, v.val)
         ELSE [loops |-> TRUE, err |-> NilError, val |-> v.val]
    ELSE IF ~v.canSet
    THEN Returned(NilError, v.val)
    ELSE IF v.kind \in IntKinds
    THEN The({convertInt(toxicStr, v, n, BitSize(v.kind, wordBits)) :
                n \in {ParseInt(toxicStr)}})
    ELSE IF v.kind \in UintKinds
    THEN The({convertUint(toxicStr, v, n, BitSize(v.kind, wordBits)) :
                n \in {ParseUint(toxicStr)}})
    ELSE IF v.kind \in FloatKinds
    THEN The({convertFloat(toxicStr, v, n) : n \in {ParseFloat(toxicStr)}})
    ELSE IF v.kind = "Bool"
    THEN The({convertBool(toxicStr, v, n) : n \in {ParseBool(toxicStr)}})
    ELSE IF v.kind = "String"
    THEN Returned(NilError, toxicStr)
    ELSE Returned(UnsupportedError(v.kind), v.val)

(***************************************************************************)
(* The inputs: struct types, targets and url.Values mappings.              *)
(***************************************************************************)
MaxFields == 2
MaxVals == 2
MaxPtrs == 2
MaxCalls == 2

One == <<"1">>

\* The strings tried as the first value of a field of each kind: the bounds
\* of its width and their neighbours, malformed strings, the tests' values.
StringsFor(kind) ==
    CASE kind = "Int8" -> 
            {<<"1", "2", "7">>, <<"1", "2", "8">>, <<"-", "1", "2", "8">>,
             <<"-", "1", "2", "9">>, <<"+", "3">>, <<"x">>,
             <<"9", "2", "2", "3", "3", "7", "2", "0", "3", "6", "8", "5", "4", "7", "7", "5", "8", "0", "8">>,
             <<>>}
      [] kind = "Int16" -> 
            {<<"3", "2", "7", "6", "7">>, <<"3", "2", "7", "6", "8">>,
             <<"-", "3", "2", "7", "6", "8">>,
             <<"-", "3", "2", "7", "6", "9">>, <<"3">>}
      [] kind = "Int32" -> 
            {<<"2", "1", "4", "7", "4", "8", "3", "6", "4", "7">>,
             <<"2", "1", "4", "7", "4", "8", "3", "6", "4", "8">>,
             <<"-", "2", "1", "4", "7", "4", "8", "3", "6", "4", "8">>,
             <<"-", "2", "1", "4", "7", "4", "8", "3", "6", "4", "9">>,
             <<"-", "0">>}
      [] kind = "Int64" -> 
            {<<"9", "2", "2", "3", "3", "7", "2", "0", "3", "6", "8", "5", "4", "7", "7", "5", "8", "0", "7">>,
             <<"9", "2", "2", "3", "3", "7", "2", "0", "3", "6", "8", "5", "4", "7", "7", "5", "8", "0", "8">>,
             <<"-", "9", "2", "2", "3", "3", "7", "2", "0", "3", "6", "8", "5", "4", "7", "7", "5", "8", "0", "8">>,
             <<"-", "9", "2", "2", "3", "3", "7", "2", "0", "3", "6", "8", "5", "4", "7", "7", "5", "8", "0", "9">>,
             <<"3">>}
      [] kind = "Int" -> 
            {<<"2", "1", "4", "7", "4", "8", "3", "6", "4", "7">>,
             <<"2", "1", "4", "7", "4", "8", "3", "6", "4", "8">>,
             <<"-", "2", "1", "4", "7", "4", "8", "3", "6", "4", "9">>,
             <<"9", "2", "2", "3", "3", "7", "2", "0", "3", "6", "8", "5", "4", "7", "7", "5", "8", "0", "7">>,
             <<"9", "2", "2", "3", "3", "7", "2", "0", "3", "6", "8", "5", "4", "7", "7", "5", "8", "0", "8">>,
             <<"3">>}
      [] kind = "Uint8" -> 
            {<<"2", "5", "5">>, <<"2", "5", "6">>, <<"-", "1">>,
             <<"0", "0", "7">>}
      [] kind = "Uint16" -> 
            {<<"6", "5", "5", "3", "5">>, <<"6", "5", "5", "3", "6">>,
             <<"7">>, <<"x">>}
      [] kind = "Uint32" -> 
            {<<"4", "2", "9", "4", "9", "6", "7", "2", "9", "5">>,
             <<"4", "2", "9", "4", "9", "6", "7", "2", "9", "6">>,
             <<"+", "7">>}
      [] kind = "Uint64" -> 
            {<<"1", "8", "4", "4", "6", "7", "4", "4", "0", "7", "3", "7", "0", "9", "5", "5", "1", "6", "1", "5">>,
             <<"1", "8", "4", "4", "6", "7", "4", "4", "0", "7", "3", "7", "0", "9", "5", "5", "1", "6", "1", "6">>,
             <<"7">>}
      [] kind = "Uint" -> 
            {<<"4", "2", "9", "4", "9", "6", "7", "2", "9", "5">>,
             <<"4", "2", "9", "4", "9", "6", "7", "2", "9", "6">>,
             <<"1", "8", "4", "4", "6", "7", "4", "4", "0", "7", "3", "7", "0", "9", "5", "5", "1", "6", "1", "5">>,
             <<"1", "8", "4", "4", "6", "7", "4", "4", "0", "7", "3", "7", "0", "9", "5", "5", "1", "6", "1", "6">>,
             <<"7">>}
      [] kind = "Float32" -> 
            {<<"-", "2", ".", "7", "5", "1", "e", "-", "6">>,
             <<"2", "2", ".", "7">>, <<"3", ".", "4", "e", "3", "8">>,
             <<"3", ".", "5", "e", "3", "8">>, <<"1", "e", "3", "0", "9">>,
             <<"1", "e">>, <<"0">>, <<"I", "n", "f">>}
      [] kind = "Float64" -> 
            {<<"2", "2", ".", "7">>, <<"3", ".", "5", "e", "3", "8">>,
             <<"1", "e", "3", "0", "8">>, <<"1", "e", "3", "0", "9">>,
             <<"x">>, <<".", "5">>}
      [] kind = "Bool" -> 
            {<<"1">>, <<"0">>, <<"t", "r", "u", "e">>,
             <<"f", "a", "l", "s", "e">>, <<"T", "r", "u", "e">>,
             <<"y", "e", "s">>, <<>>}
      [] kind = "String" -> 
            {<<"J", "o", "h", "n", "n", "y">>, <<>>, <<"3">>}
      [] kind = "Complex128" -> 
            {<<"6", "5", "5", "3", "6", ".", "2", "8", "2">>, <<"1">>}
      [] OTHER -> {One}

\* The strings tried on the fields of a struct of several fields.
CoreStringsFor(kind) ==
    CASE kind = "Int8" -> 
            {<<"1", "2", "7">>, <<"1", "2", "8">>}
      [] kind = "String" -> 
            {<<"J", "o", "h", "n", "n", "y">>}
      [] kind = "Float32" -> 
            {<<"2", "2", ".", "7">>, <<"x">>}
      [] kind = "Bool" -> 
            {<<"t", "r", "u", "e">>}
      [] OTHER -> {One}

Shape(kind, tag, exported, anonymous, decoder) ==
    [Kind |-> kind, Tag |-> tag, Exported |-> exported,
     Anonymous |-> anonymous, Decoder |-> decoder]

Plain(kind) == Shape(kind, NoTag, TRUE, FALSE, FALSE)

Tagged(kind, tag) == Shape(kind, tag, TRUE, FALSE, FALSE)

AllKinds ==
    PrimitiveKinds \cup {"Complex128", "Struct", "Slice", "Array", PtrKind}

FullShapes ==
    {Plain(k) : k \in AllKinds}
      \cup {Shape("String", NoTag, FALSE, FALSE, FALSE),
            Shape("Complex128", NoTag, FALSE, FALSE, FALSE),
            Tagged("String", SkipTag),
            Tagged("Complex128", SkipTag),
            Tagged("Float32", ScaleTag),
            Tagged("Bool", ScaleSeenTag),
            Tagged("Bool", DefaultSeenTag),
            Tagged("Int8", ScaleSeenTag),
            Tagged("String", ScaleOmitTag),
            Tagged("String", DashOmitTag),
            Shape("Struct", NoTag, TRUE, TRUE, FALSE),
            Shape("Struct", ScaleTag, TRUE, TRUE, FALSE),
            Shape("Int", NoTag, TRUE, FALSE, TRUE)}

CoreShapes ==
    {Plain("Int8"), Plain("String"), Plain("Complex128"), Plain(PtrKind),
     Tagged("Float32", ScaleTag), Tagged("Bool", ScaleSeenTag),
     Shape("String", NoTag, FALSE, FALSE, FALSE)}

\* reflect.StructField of the i-th field of a struct with this shape.
StructField(shape, i) ==
    [Name      |-> IF shape.Exported THEN <<ExportedNames[i]>>
                   ELSE <<UnexportedNames[i]>>,
     PkgPath   |-> IF shape.Exported THEN <<>> ELSE <<"q", "u", "e", "r", "y">>,
     Tag       |-> shape.Tag,
     Anonymous |-> shape.Anonymous,
     Kind      |-> shape.Kind,
     Decoder   |-> shape.Decoder]

StructType(shapes) == [i \in DOMAIN shapes |-> StructField(shapes[i], i)]

\* Every struct of one field, and the structs of several core fields.
StructTypes ==
    {StructType(<<sh>>) : sh \in FullShapes}
      \cup UNION {{StructType(shapes) : shapes \in [1..n -> CoreShapes]} :
                    n \in 2..MaxFields}

\* The name a field is looked up by, when it is looked up.
NameOr(name, sf) == IF name = <<>> \/ sf.Tag = SkipTag THEN sf.Name ELSE name

ResolvedName(sf) == NameOr(parseTag(sf.Tag).name, sf)

\* The interface value handed to Decode, as the kinds met following it:
\* <<>> is the nil interface, "NilPtr" a nil pointer, "Ptr" one that points.
Targets ==
    {<<>>}
      \cup {[j \in 1..n |-> PtrKind] \o <<base>> :
              n \in 0..MaxPtrs, base \in {"Struct", "Int", "NilPtr"}}

PointerToStruct == <<PtrKind, "Struct">>

ToggleCase(c) ==
    CASE c = "A" -> "a" [] c = "B" -> "b" [] c = "C" -> "c" [] c = "D" -> "d"
      [] c = "a" -> "A" [] c = "b" -> "B" [] c = "c" -> "C" [] c = "d" -> "D"
      [] c = "s" -> "S" [] OTHER -> c

\* A key that differs from name in the case of its first letter only.
OtherCase(name) == <<ToggleCase(Head(name))>> \o Tail(name)

FieldKeys(typ) == {ResolvedName(typ[i]) : i \in DOMAIN typ}

\* The keys of typ's fields in the order of the fields, each once.
KeySeq(typ) ==
    LET firsts == {i \in DOMAIN typ :
                     \A j \in 1..(i - 1) : ResolvedName(typ[j]) # ResolvedName(typ[i])}
        Nth[n \in 0..Len(typ)] ==
            IF n = 0 THEN 0
            ELSE IF \E i \in firsts : i > Nth[n - 1]
            THEN CHOOSE i \in firsts :
                     i > Nth[n - 1] /\ \A j \in firsts : j > Nth[n - 1] => i <= j
            ELSE 0
    IN  [n \in 1..Cardinality(firsts) |-> ResolvedName(typ[Nth[n]])]

\* The value sequences tried under key: none, or a first string of one of
\* the fields the key names followed by other values, MaxVals at most in
\* all for a struct of one field and one fewer for each further field.
StringsUnder(typ, key) ==
    UNION {IF Len(typ) = 1 THEN StringsFor(typ[i].Kind)
           ELSE CoreStringsFor(typ[i].Kind) :
             i \in {j \in DOMAIN typ : ResolvedName(typ[j]) = key}}

Spare(typ) == IF MaxVals > Len(typ) THEN MaxVals - Len(typ) ELSE 0

SlicesUnder(typ, key) ==
    {<<>>} \cup {<<str>> \o [j \in 1..n |-> One] :
                   str \in StringsUnder(typ, key), n \in 0..Spare(typ)}

Put(m, key, slice) ==
    [k \in DOMAIN m \cup {key} |-> IF k = key THEN slice ELSE m[k]]

\* The mappings of rest, each as it is and with each slice under key.
Extend(rest, key, slices) ==
    rest \cup {Put(m, key, slice) : m \in rest, slice \in slices}

RECURSIVE ValuesOver(_, _)
ValuesOver(typ, keys) ==
    IF keys = <<>>
    THEN {<<>>}
    ELSE Extend(ValuesOver(typ, Tail(keys)), Head(keys),
                SlicesUnder(typ, Head(keys)))

\* Keys that name no field: the keys of the fields in the other case, the
\* skip tag, and a name no field has.
StrayKeys(typ) ==
    ({OtherCase(k) : k \in FieldKeys(typ)} \cup {SkipTag, <<"G">>}) \ FieldKeys(typ)

WithStrays(typ, m) ==
    [k \in DOMAIN m \cup StrayKeys(typ) |-> IF k \in DOMAIN m THEN m[k] ELSE <<One>>]

\* The url.Values tried on a target of type typ.
StrayOrNot(typ, main) == main \cup {WithStrays(typ, m) : m \in main}

ValuesFor(typ) == StrayOrNot(typ, ValuesOver(typ, KeySeq(typ)))

ZeroRecord(typ) == [i \in DOMAIN typ |-> ZeroValue(typ[i].Kind)]

PresetRecord(typ) == [i \in DOMAIN typ |-> PresetValue(typ[i].Kind)]

(***************************************************************************)
(* The state: one goroutine calling Decode(toxicValues, target), up to     *)
(* MaxCalls times with the same arguments.                                 *)
(***************************************************************************)
VARIABLES
    target,       \* the chain of kinds of the argument v
    typ,          \* the struct type v leads to: its reflect.StructFields
    wordBits,     \* the size of int and uint in this build
    toxicValues,  \* the url.Values
    rec,          \* the values of the struct's fields
    pc,           \* "call", "deref", "absorb", "for", "isnil" or "done"
    val,          \* Decode's val: the place in target it has reached
    i,            \* absorbValue's i: the field it is at
    err,          \* the error the call returned
    pre,          \* rec as it was when the call began
    results       \* per completed call: [pre, rec, err, at]

vars ==
    <<target, typ, wordBits, toxicValues, rec, pc, val, i, err, pre, results>>

inputs == <<target, typ, wordBits, toxicValues>>

HasWordSized(t) == \E j \in DOMAIN t : t[j].Kind \in {"Int", "Uint"}

Init ==
    /\ typ \in StructTypes
    /\ target \in Targets
    /\ target # PointerToStruct => typ = StructType(<<Plain("Int8")>>)
    /\ wordBits \in (IF HasWordSized(typ) THEN {32, 64} ELSE {64})
    /\ toxicValues \in ValuesFor(typ)
    /\ rec \in {ZeroRecord(typ), PresetRecord(typ)}
    /\ pc = "call"
    /\ val = 0
    /\ i = 0
    /\ err = NilError
    /\ pre = rec
    /\ results = <<>>

(***************************************************************************)
(* Decode (decode.go:54-72)                                                *)
(***************************************************************************)
IsPointer(kind) == kind \in {PtrKind, "NilPtr"}

\* The call returns e, having stopped at field `at` (0: at no field) and
\* leaving the fields as in r.
Return(e, at, r) ==
    /\ pc' = "done"
    /\ err' = e
    /\ results' = Append(results, [pre |-> pre, rec |-> r, err |-> e, at |-> at])

\* decode.go:55-59: v == nil, else val := reflect.ValueOf(v)
DecodeEnter ==
    /\ pc = "call"
    /\ IF target = <<>>
       THEN /\ Return(NilError, 0, rec)
            /\ UNCHANGED <<val, i>>
       ELSE /\ pc' = "deref"
            /\ val' = 1
            /\ i' = 0
            /\ UNCHANGED <<err, results>>
    /\ UNCHANGED <<inputs, rec, pre>>

\* decode.go:60-65: one turn of the loop that follows the pointers
DecodeDeref ==
    /\ pc = "deref"
    /\ IsPointer(target[val])
    /\ IF target[val] = "NilPtr"
       THEN /\ Return(NilError, 0, rec)
            /\ UNCHANGED val
       ELSE /\ val' = val + 1
            /\ UNCHANGED <<pc, err, results>>
    /\ UNCHANGED <<inputs, rec, pre, i>>

\* decode.go:67-71: the struct check and the call of absorbValue
DecodeStruct ==
    /\ pc = "deref"
    /\ ~IsPointer(target[val])
    /\ IF target[val] # "Struct"
       THEN /\ Return(ExpectsStructError(target[val]), 0, rec)
            /\ UNCHANGED i
       ELSE /\ pc' = "absorb"
            /\ i' = 1
            /\ UNCHANGED <<err, results>>
    /\ UNCHANGED <<inputs, rec, pre, val>>

(***************************************************************************)
(* absorbValue (decode.go:81-200)                                          *)
(***************************************************************************)
\* reflect.Value.CanSet of a field: the struct was reached through a
\* pointer and the field is exported.
CanSet(sf, addressable) == addressable /\ sf.PkgPath = <<>>

\* decode.go:122-124
Scoped(scope, name) ==
    IF scope # <<>> THEN scope \o <<"[">> \o name \o <<"]">> ELSE name

\* What a Decoder's DecodeValues may do with the field: this is the code of
\* the field's type, which fails or returns nil, having set the field or not.
DecodeValues(sv, kind) ==
    {Returned(DecodeValuesError, sv), Returned(NilError, sv),
     Returned(DecodeValuesError, PresetValue(kind)),
     Returned(NilError, PresetValue(kind))}

\* A variant of FirstValue that takes the last value under name.
LastValue(values, name) == values[name][Len(values[name])]

\* A variant of Seen that wants a value under name.
SeenWithValue(values, name) == name \in DOMAIN values /\ values[name] # <<>>

\* A variant of Skip that ends the turn with an error.
SkipFailing(sv) == {Returned(NilPointerError, sv)}

\* A variant of SeenValue that flips the flag.
Flipped(sv) == ~sv

\* The first value under name (decode.go:160-165).
FirstValue(values, name) == values[name][1]

\* Whether name has a value to take (decode.go:161).
HasValue(values, name) == name \in DOMAIN values /\ Len(values[name]) > 0

\* Whether name was seen (decode.go:116).
Seen(values, name) == name \in DOMAIN values

\* The value sv.SetBool(true) gives a seen field (decode.go:117).
SeenValue(sv) == TRUE

\* continue: the turn ends with the field as it was.
Skip(sv) == {Returned(NilError, sv)}

\* decode.go:112-190: the rest of the turn, for a field that has the name
\* `name` and the options opts.
absorbNamed(values, sf, sv, canSet, name, key, opts, bits) ==
    IF Contains(opts, SeenOption)
    THEN IF sf.Kind # "Bool" \/ ~canSet
         THEN Skip(sv)
         ELSE IF Seen(values, name)
         THEN {Returned(NilError, SeenValue(sv))}
         ELSE Skip(sv)
    ELSE IF sf.Decoder
    THEN IF HasValue(values, key)
         THEN DecodeValues(sv, sf.Kind)
         ELSE Skip(sv)
    ELSE IF sf.Kind \in {"Slice", "Array"}
    THEN Skip(sv)
    ELSE IF ~HasValue(values, key)
    THEN Skip(sv)
    ELSE IF sf.Kind = PtrKind /\ sv # "nil"
    THEN {[loops |-> TRUE, err |-> NilError, val |-> sv]}
    ELSE {convertString(toxicValue,
                        [kind |-> sf.Kind, canSet |-> canSet, val |-> sv],
                        bits) : toxicValue \in {FirstValue(values, key)}}

\* decode.go:97-106: the turn for a field whose tag parses as tag.
absorbTagged(values, sf, sv, addressable, scope, bits, tag) ==
    IF tag.name = <<>>
    THEN IF sf.Anonymous /\ sf.Kind = "Struct"
         THEN Skip(sv)
         ELSE absorbNamed(values, sf, sv, CanSet(sf, addressable), sf.Name,
                          Scoped(scope, sf.Name), tag.opts, bits)
    ELSE absorbNamed(values, sf, sv, CanSet(sf, addressable), tag.name,
                     Scoped(scope, tag.name), tag.opts, bits)

\* A variant of absorbField that skips no field.
absorbEvery(values, sf, sv, addressable, scope, bits) ==
    absorbTagged(values, sf, sv, addressable, scope, bits, parseTag(sf.Tag))

\* One turn of the loop over the fields (decode.go:87-190), for the field sf
\* holding sv: the ways the turn can end, each the error returned (NilError:
\* the loop goes on), the value the field then holds, and whether the turn
\* ends at all.
absorbField(values, sf, sv, addressable, scope, bits) ==
    IF sf.PkgPath # <<>>
    THEN Skip(sv)
    ELSE IF sf.Tag = SkipTag
    THEN Skip(sv)
    ELSE absorbTagged(values, sf, sv, addressable, scope, bits, parseTag(sf.Tag))

\* The ways the turn for the field absorbValue is at can end.
Turn == absorbField(toxicValues, typ[i], rec[i], val > 1, <<>>, wordBits)

\* The turn ends without an error: on to the next field.
AbsorbContinue ==
    /\ pc = "absorb"
    /\ i \in DOMAIN typ
    /\ \E o \in Turn :
         /\ ~o.loops
         /\ o.err = NilError
         /\ rec' = [rec EXCEPT ![i] = o.val]
    /\ i' = i + 1
    /\ UNCHANGED <<inputs, pc, val, err, pre, results>>

\* A variant of AbsorbFail that takes back what the earlier fields were given.
AbsorbFailRollback ==
    /\ pc = "absorb"
    /\ i \in DOMAIN typ
    /\ \E o \in Turn :
         /\ ~o.loops
         /\ o.err # NilError
         /\ rec' = pre
         /\ Return(o.err, i, pre)
    /\ UNCHANGED <<inputs, val, i, pre>>

\* The turn ends with an error, which absorbValue and Decode return
\* (decode.go:131, 189).
AbsorbFail ==
    /\ pc = "absorb"
    /\ i \in DOMAIN typ
    /\ \E o \in Turn :
         /\ ~o.loops
         /\ o.err # NilError
         /\ rec' = [rec EXCEPT ![i] = o.val]
         /\ Return(o.err, i, [rec EXCEPT ![i] = o.val])
    /\ UNCHANGED <<inputs, val, i, pre>>

\* The turn reaches the loop of decode.go:175-180 with a pointer that is
\* not nil.
AbsorbLoop ==
    /\ pc = "absorb"
    /\ i \in DOMAIN typ
    /\ \E o \in Turn : o.loops
    /\ pc' = "for"
    /\ UNCHANGED <<inputs, rec, val, i, err, pre, results>>

\* decode.go:175: sv.Kind() == reflect.Ptr holds, into the body
LoopTest ==
    /\ pc = "for"
    /\ typ[i].Kind = PtrKind
    /\ pc' = "isnil"
    /\ UNCHANGED <<inputs, rec, val, i, err, pre, results>>

\* decode.go:176-180: sv is not nil, so no break; sv stays what it is
\* (sv = sv.Elem() is commented out), and the loop tests it again.
LoopBody ==
    /\ pc = "isnil"
    /\ rec[i] # "nil"
    /\ pc' = "for"
    /\ UNCHANGED <<inputs, rec, val, i, err, pre, results>>

\* decode.go:199: past the last field
AbsorbReturn ==
    /\ pc = "absorb"
    /\ i \notin DOMAIN typ
    /\ rec' = rec
    /\ Return(NilError, 0, rec)
    /\ UNCHANGED <<inputs, val, i, pre>>

\* The caller calls Decode again with the same arguments.
DecodeAgain ==
    /\ pc = "done"
    /\ Len(results) < MaxCalls
    /\ pc' = "call"
    /\ pre' = rec
    /\ val' = 0
    /\ i' = 0
    /\ err' = NilError
    /\ UNCHANGED <<inputs, rec, results>>

Next ==
    \/ DecodeEnter
    \/ DecodeDeref
    \/ DecodeStruct
    \/ AbsorbContinue
    \/ AbsorbFail
    \/ AbsorbLoop
    \/ LoopTest
    \/ LoopBody
    \/ AbsorbReturn
    \/ DecodeAgain

Spec == Init /\ [][Next]_vars

\* The goroutine runs: a step that is possible is taken.
FairSpec == Spec /\ WF_vars(Next)

(***************************************************************************)
(* The claims.  A completed call is an element r of results: r.pre and     *)
(* r.rec are the fields before and after it, r.err is what it returned and *)
(* r.at is the field whose turn returned the error (0: none).              *)
(***************************************************************************)
Calls == {results[c] : c \in DOMAIN results}

\* Decode was handed a pointer (to a pointer ...) to the struct.
ThroughPointer == Len(target) > 1 /\ target[Len(target)] = "Struct"

HasSeen(sf) == Contains(parseTag(sf.Tag).opts, SeenOption)

\* The fields Decode converts a string for: exported, not skipped by their
\* tag, not marked seen.
Converted(sf) == sf.PkgPath = <<>> /\ sf.Tag # SkipTag /\ ~HasSeen(sf)

\* A presence flag: an exported bool marked seen.
SeenFlag(sf) ==
    sf.PkgPath = <<>> /\ sf.Tag # SkipTag /\ HasSeen(sf) /\ sf.Kind = "Bool"

\* The call r went as far as the turn of field j.
Reached(r, j) == r.err = NilError \/ r.at >= j

First(sf) == toxicValues[ResolvedName(sf)][1]

Supplied(sf) ==
    ResolvedName(sf) \in DOMAIN toxicValues
        /\ toxicValues[ResolvedName(sf)] # <<>>

\* -2^(bits-1) <= n <= 2^(bits-1) - 1
FitsInt(n, bits) ==
    IF n.neg THEN MagLeq(n.mag, Pow2(bits - 1)) ELSE MagLess(n.mag, Pow2(bits - 1))

\* 0 <= n <= 2^bits - 1
FitsUint(n, bits) == MagLess(n.mag, Pow2(bits))

\* str is a valid string for kind, in the range of kind.
ValidFor(kind, str) ==
    CASE kind \in IntKinds ->
            ParseInt(str).err = "nil"
                /\ FitsInt(ParseInt(str), BitSize(kind, wordBits))
      [] kind \in UintKinds ->
            ParseUint(str).err = "nil"
                /\ FitsUint(ParseUint(str), BitSize(kind, wordBits))
      [] kind \in FloatKinds ->
            ParseFloat(str).err = "nil" /\ ~OverflowFloat(ParseFloat(str).val, kind)
      [] kind = "Bool" -> ParseBool(str).err = "nil"
      [] kind = "String" -> TRUE
      [] OTHER -> FALSE

\* The value of kind that str denotes.
TypedValue(kind, str) ==
    CASE kind \in IntKinds ->
            [neg |-> ParseInt(str).neg, mag |-> ParseInt(str).mag]
      [] kind \in UintKinds -> [neg |-> FALSE, mag |-> ParseUint(str).mag]
      [] kind \in FloatKinds -> StoredFloat(ParseFloat(str).val, kind)
      [] kind = "Bool" -> ParseBool(str).val
      [] kind = "String" -> str

\* The case of C1: a zero-valued struct behind a pointer, whose converted
\* fields are of the builtin primitive types and are each supplied a valid
\* first string.
AllValid(r) ==
    /\ ThroughPointer
    /\ r.pre = ZeroRecord(typ)
    /\ \A j \in DOMAIN typ :
         Converted(typ[j]) =>
            /\ typ[j].Kind \in PrimitiveKinds
            /\ ~typ[j].Decoder
            /\ Supplied(typ[j])
            /\ ValidFor(typ[j].Kind, First(typ[j]))

\* C1 as stated: when every converted field of a zero-valued struct is of
\* a primitive kind and is supplied a valid first string, Decode returns
\* nil, each such field holds the typed value of that first string, and no
\* other field is changed.
C1_AsStated ==
    \A r \in Calls :
        AllValid(r) =>
            /\ r.err = NilError
            /\ \A j \in DOMAIN typ :
                 IF Converted(typ[j])
                 THEN r.rec[j] = TypedValue(typ[j].Kind, First(typ[j]))
                 ELSE r.rec[j] = r.pre[j]

\* C1 (amended): when every converted field of a zero-valued struct is of a
\* primitive kind and is supplied a valid first string, Decode returns nil,
\* each such field holds the typed value of the first string under its
\* name, whatever strings follow it, and no other field is changed except
\* the presence flags, which are true exactly when their name is a key.
C1_ValidValuesAssigned ==
    \A r \in Calls :
        AllValid(r) =>
            /\ r.err = NilError
            /\ \A j \in DOMAIN typ :
                 IF Converted(typ[j])
                 THEN r.rec[j] = TypedValue(typ[j].Kind, First(typ[j]))
                 ELSE IF SeenFlag(typ[j])
                 THEN r.rec[j] = (ResolvedName(typ[j]) \in DOMAIN toxicValues)
                 ELSE r.rec[j] = r.pre[j]

\* A call of C1's case in which a field took the first of two different
\* strings.
C1_Witness ==
    \E r \in Calls :
        /\ AllValid(r)
        /\ \E j \in DOMAIN typ :
             /\ Converted(typ[j])
             /\ Len(toxicValues[ResolvedName(typ[j])]) > 1
             /\ toxicValues[ResolvedName(typ[j])][2] # First(typ[j])
             /\ r.rec[j] # r.pre[j]

\* C2 as stated: a presence flag is true after Decode exactly when its name
\* is a key of the mapping or it was true before, whatever is stored under
\* the key and whatever sibling shares the name.
C2_AsStated ==
    \A r \in Calls :
        ThroughPointer =>
            \A j \in DOMAIN typ :
                SeenFlag(typ[j]) =>
                    r.rec[j] =
                        (r.pre[j] \/ ResolvedName(typ[j]) \in DOMAIN toxicValues)

\* C2 (amended): in a call that no field declared before the flag has
\* stopped, a presence flag is true after Decode exactly when its name is a
\* key of the mapping or it was true before, whatever is stored under the
\* key (an empty sequence, an unparseable string) and whatever sibling
\* shares the name.
C2_SeenIffKey ==
    \A r \in Calls :
        ThroughPointer =>
            \A j \in DOMAIN typ :
                SeenFlag(typ[j]) /\ Reached(r, j) =>
                    /\ r.rec[j] =
                         (r.pre[j] \/ ResolvedName(typ[j]) \in DOMAIN toxicValues)
                    /\ r.at # j

\* A flag raised from false by a key that holds the empty sequence.
C2_Witness ==
    \E r \in Calls :
        /\ ThroughPointer
        /\ \E j \in DOMAIN typ :
             /\ SeenFlag(typ[j]) /\ Reached(r, j)
             /\ ResolvedName(typ[j]) \in DOMAIN toxicValues
             /\ toxicValues[ResolvedName(typ[j])] = <<>>
             /\ ~r.pre[j] /\ r.rec[j]

\* C3: a field not marked seen whose name, in its exact case, is no key of
\* the mapping or holds the empty sequence keeps the value it had before
\* the call and returns no error, whatever other keys the mapping has
\* (the name in another case, names of no field).
C3_AbsentKeepsValue ==
    /\ \A j \in DOMAIN typ :
         ~HasSeen(typ[j]) /\ ~Supplied(typ[j]) => rec[j] = pre[j]
    /\ \A r \in Calls :
         \A j \in DOMAIN typ :
            ~HasSeen(typ[j]) /\ ~Supplied(typ[j]) =>
                r.rec[j] = r.pre[j] /\ r.at # j

\* The keys of the mapping that name no field.
Unmatched ==
    {k \in DOMAIN toxicValues : \A j \in DOMAIN typ : ResolvedName(typ[j]) # k}

\* A call that returned nil on a preset struct, given only keys that name
\* no field, one of them a field's name in another case.
C3_Witness ==
    \E r \in Calls :
        /\ ThroughPointer
        /\ r.err = NilError
        /\ r.pre = PresetRecord(typ) /\ r.rec = r.pre
        /\ \E j \in DOMAIN typ :
             /\ Converted(typ[j]) /\ typ[j].Kind \in PrimitiveKinds
             /\ ~Supplied(typ[j])
             /\ OtherCase(ResolvedName(typ[j])) \in Unmatched
             /\ toxicValues[OtherCase(ResolvedName(typ[j]))] # <<>>

RECURSIVE Succ(_)
\* m + 1
Succ(m) ==
    IF m = <<>>
    THEN <<1>>
    ELSE IF m[Len(m)] < 9
    THEN [m EXCEPT ![Len(m)] = @ + 1]
    ELSE Succ(SubSeq(m, 1, Len(m) - 1)) \o <<0>>

\* An integer field that takes a string: exported, not skipped, not marked
\* seen, of a builtin integer type.
IntegerField(sf) ==
    Converted(sf) /\ ~sf.Decoder /\ sf.Kind \in IntKinds \cup UintKinds

\* The first string for sf parses as a 64-bit integer of sf's signedness.
Parses(sf) ==
    IF sf.Kind \in IntKinds
    THEN ParseInt(First(sf)).err = "nil"
    ELSE ParseUint(First(sf)).err = "nil"

Parsed(sf) == TypedValue(sf.Kind, First(sf))

Width(sf) == BitSize(sf.Kind, wordBits)

Fits(sf) ==
    IF sf.Kind \in IntKinds
    THEN FitsInt(Parsed(sf), Width(sf))
    ELSE FitsUint(Parsed(sf), Width(sf))

\* The first string for sf is the least or the greatest value of its width.
AtLimit(sf) ==
    IF sf.Kind \in IntKinds
    THEN IF Parsed(sf).neg
         THEN Parsed(sf).mag = Pow2(Width(sf) - 1)
         ELSE Succ(Parsed(sf).mag) = Pow2(Width(sf) - 1)
    ELSE Parsed(sf).mag = <<>> \/ Succ(Parsed(sf).mag) = Pow2(Width(sf))

\* C4 as stated: an integer field of width w whose first string parses as a
\* 64-bit integer outside the range of w makes Decode return an error
\* containing "incompatible" and stays unassigned; a first string at the
\* least or greatest value of w is assigned and Decode succeeds.
C4_AsStated ==
    \A r \in Calls :
        ThroughPointer =>
            \A j \in DOMAIN typ :
                IntegerField(typ[j]) /\ Supplied(typ[j]) /\ Parses(typ[j]) =>
                    /\ ~Fits(typ[j]) =>
                         /\ HasSubstring(r.err, Incompatible)
                         /\ r.rec[j] = r.pre[j]
                    /\ AtLimit(typ[j]) =>
                         /\ r.rec[j] = Parsed(typ[j])
                         /\ r.err = NilError

\* C4 (amended): in a call that no field declared before it has stopped, an
\* integer field of width w whose first string parses as a 64-bit integer
\* outside the range of w makes Decode return an error containing
\* "incompatible" and stays unassigned, and a first string within the
\* range, the least and the greatest value of w included, is assigned and
\* is no field Decode returns an error for.
C4_WidthChecked ==
    \A r \in Calls :
        ThroughPointer =>
            \A j \in DOMAIN typ :
                /\ IntegerField(typ[j]) /\ Supplied(typ[j]) /\ Parses(typ[j])
                /\ Reached(r, j)
                =>
                    IF Fits(typ[j])
                    THEN r.rec[j] = Parsed(typ[j]) /\ r.at # j
                    ELSE /\ r.at = j
                         /\ HasSubstring(r.err, Incompatible)
                         /\ r.rec[j] = r.pre[j]

\* A call that gave one integer field the greatest value of its width and
\* returned the error of the next, one past it.
C4_Witness ==
    \E r \in Calls :
        /\ ThroughPointer
        /\ Len(typ) > 1
        /\ IntegerField(typ[1]) /\ Supplied(typ[1]) /\ Parses(typ[1])
        /\ AtLimit(typ[1]) /\ r.rec[1] = Parsed(typ[1]) /\ r.rec[1] # r.pre[1]
        /\ IntegerField(typ[2]) /\ Supplied(typ[2]) /\ Parses(typ[2])
        /\ ~Fits(typ[2]) /\ Succ(Parsed(typ[1]).mag) = Parsed(typ[2]).mag
        /\ r.at = 2 /\ HasSubstring(r.err, Incompatible)

\* A field of a builtin type that convertString has no case for.
NoRule(sf) ==
    /\ Converted(sf) /\ ~sf.Decoder
    /\ sf.Kind \in {"Complex128", "Struct"}
    /\ ~(sf.Anonymous /\ parseTag(sf.Tag).name = <<>>)

\* C5 as stated: a settable field of a kind without a conversion rule whose
\* name has a value makes Decode return an error containing "Unsupported",
\* and is not assigned.
C5_AsStated ==
    \A r \in Calls :
        ThroughPointer =>
            \A j \in DOMAIN typ :
                NoRule(typ[j]) /\ Supplied(typ[j]) =>
                    /\ HasSubstring(r.err, Unsupported)
                    /\ r.rec[j] = r.pre[j]

\* C5 (amended): in a call that no field declared before it has stopped, a
\* settable field of a kind without a conversion rule whose name has a
\* value makes Decode return an error containing "Unsupported", and is not
\* assigned.
C5_UnsupportedKind ==
    \A r \in Calls :
        ThroughPointer =>
            \A j \in DOMAIN typ :
                NoRule(typ[j]) /\ Supplied(typ[j]) /\ Reached(r, j) =>
                    /\ r.at = j
                    /\ HasSubstring(r.err, Unsupported)
                    /\ r.rec[j] = r.pre[j]

\* A complex field, after a field that was assigned, stopped the call.
C5_Witness ==
    \E r \in Calls :
        /\ ThroughPointer
        /\ Len(typ) > 1
        /\ r.rec[1] # r.pre[1]
        /\ typ[2].Kind = "Complex128" /\ NoRule(typ[2]) /\ Supplied(typ[2])
        /\ r.at = 2 /\ HasSubstring(r.err, Unsupported)

\* The ways the turn of field j can end on the field as r found it.
Ends(r, j) ==
    {o \in absorbField(toxicValues, typ[j], r.pre[j], ThroughPointer, <<>>,
                       wordBits) : ~o.loops}

\* C6: Decode takes the fields in the order they are declared and stops at
\* the first whose turn fails: it returns that field's error, each field
\* declared before it holds what its own turn gave it, and the failing
\* field and each field declared after it hold what they held before the
\* call.
C6_StopsAtFirstFailure ==
    \A r \in Calls :
        r.at # 0 =>
            /\ r.at \in DOMAIN typ
            /\ r.err # NilError
            /\ \E o \in Ends(r, r.at) : o.err = r.err /\ o.val = r.rec[r.at]
            /\ ~typ[r.at].Decoder => r.rec[r.at] = r.pre[r.at]
            /\ \A j \in 1..(r.at - 1) :
                 /\ \E o \in Ends(r, j) : o.err = NilError /\ o.val = r.rec[j]
                 /\ ~typ[j].Decoder => \A o \in Ends(r, j) : o.err = NilError
            /\ \A j \in (r.at + 1)..Len(typ) : r.rec[j] = r.pre[j]

\* A call stopped by its second field, which kept what the first was given
\* and left the second as it was.
C6_Witness ==
    \E r \in Calls :
        /\ r.at = 2
        /\ r.rec[1] # r.pre[1]
        /\ r.rec[2] = r.pre[2]
        /\ Supplied(typ[2])

\* A field of a shape Decode does not handle: a struct, a slice, an array
\* or a pointer.
UnsupportedShape(sf) ==
    Converted(sf) /\ ~sf.Decoder /\ sf.Kind \in {"Struct", "Slice", "Array", PtrKind}

\* C7: a field that is a nested or embedded struct, a slice, an array or a
\* pointer, nil or not, is left as it was and is no field Decode returns an
\* error for.
C7_UnsupportedShapeSkipped ==
    \A r \in Calls :
        \A j \in DOMAIN typ :
            UnsupportedShape(typ[j]) => r.rec[j] = r.pre[j] /\ r.at # j

\* A field Decode never looks at: unexported, or with the tag "-".
Ignored(sf) == sf.PkgPath # <<>> \/ sf.Tag = SkipTag

\* C8: a field that is unexported or has the tag "-" holds, at every point
\* of every call, what it held before the call, and is no field Decode
\* returns an error for, whatever the mapping has under its name or "-".
C8_IgnoredUntouched ==
    /\ \A j \in DOMAIN typ : Ignored(typ[j]) => rec[j] = pre[j]
    /\ \A r \in Calls :
         \A j \in DOMAIN typ :
            Ignored(typ[j]) => r.rec[j] = r.pre[j] /\ r.at # j

\* A call that returned nil on a struct behind a pointer, with a field of
\* the tag "-" and a value under its declared name or under "-".
C8_Witness ==
    \E r \in Calls :
        /\ ThroughPointer
        /\ r.err = NilError
        /\ \E j \in DOMAIN typ :
             /\ typ[j].Tag = SkipTag
             /\ \/ (typ[j].Name \in DOMAIN toxicValues
                      /\ toxicValues[typ[j].Name] # <<>>)
                \/ (SkipTag \in DOMAIN toxicValues /\ toxicValues[SkipTag] # <<>>)

\* No field is of a type with its own DecodeValues, whose code is the
\* type's and not Decode's.
Builtin == \A j \in DOMAIN typ : ~typ[j].Decoder

\* C9: a second Decode of the same mapping into the struct the first left
\* changes no field and returns what the first returned.
C9_Idempotent ==
    Builtin =>
        \A c \in DOMAIN results :
            c > 1 =>
                /\ results[c].pre = results[c - 1].rec
                /\ results[c].rec = results[c - 1].rec
                /\ results[c].err = results[c - 1].err
                /\ results[c].at = results[c - 1].at

\* Two calls on a struct that was zero, the first of which changed it.
C9_Witness ==
    /\ Builtin
    /\ ThroughPointer
    /\ Len(results) > 1
    /\ results[1].pre = ZeroRecord(typ)
    /\ results[1].rec # results[1].pre
    /\ results[2].rec = results[1].rec

\* C10: every call of Decode returns.
C10_Terminates == []<>(pc = "done")

=============================================================================
